---- MODULE Spec2Model ----
(***************************************************************************)
(* LokSeva Connect backend (src/index.js, V2.3 section, lines 252-701, and *)
(* src/seed.js): the HTTP handlers over the profile store, the            *)
(* conversation store, the agency catalog and the vector index.           *)
(*                                                                         *)
(* Each handler is one action.  Its inputs (request body, the text the   *)
(* generation client returns, the external call that fails, if any) are   *)
(* drawn from small sets.  `last` holds the request just handled, its     *)
(* response and the external calls it made, in order.                     *)
(***************************************************************************)
EXTENDS Integers, Sequences, FiniteSets, TLC

VARIABLES users, conversations, agencies, vectorIndex, nextAgencyId, last, submitted,
          inflight

vars == <<users, conversations, agencies, vectorIndex, nextAgencyId, last, submitted,
          inflight>>

(***************************************************************************)
(* JavaScript values are tagged records: undefined, a string (a sequence  *)
(* of tokens, so that stripping and truncating act on its content), a     *)
(* number, an array.  An email is a plain string; a request without one   *)
(* carries NoEmail.                                                        *)
(***************************************************************************)
Undef == [undef |-> TRUE]
Str(tokens) == [str |-> tokens]
Num(n) == [num |-> n]
List(l) == [list |-> l]
NoEmail == ""

\* MissingIdentity with the check dropped
MissingIdentityIgnored(email) == FALSE

\* if (!email) return res.status(400)..., the first statement of a handler
\* after it has taken the fields from the request
MissingIdentity(email) == email = NoEmail

\* JS truthiness: undefined, "" and 0 are falsy
Truthy(v) == v # Undef /\ v # Str(<<>>) /\ v # Num(0)

\* a || b
Or(a, b) == IF Truthy(a) THEN a ELSE b

Min(a, b) == IF a < b THEN a ELSE b
Max(a, b) == IF a > b THEN a ELSE b

\* Array.prototype.slice(-n): the last n elements, all of them when there are fewer
SliceLast(s, n) == SubSeq(s, Max(1, Len(s) - n + 1), Len(s))

(***************************************************************************)
(* Bounds                                                                  *)
(***************************************************************************)
MaxExchanges == 2
MaxAgencyId == 4
MaxPage == 2
MaxHistory == 10

Emails == {"a@x", "b@x"}

(***************************************************************************)
(* Profile store: userSchema, one document per save of a new User.        *)
(***************************************************************************)
\* req.body of POST /api/user/profile without the email
ProfileBodies ==
  { [name |-> Str(<<"Asha">>), profilePic |-> Str(<<"pic1">>), phone |-> Str(<<"111">>),
     age |-> Num(75), address |-> Str(<<"KT Road">>),
     medicalHistory |-> Str(<<"Diabetic">>)],
    [name |-> Str(<<"Asha R">>), profilePic |-> Undef, phone |-> Str(<<>>),
     age |-> Undef, address |-> Undef, medicalHistory |-> Str(<<"Wheelchair">>)],
    [name |-> Str(<<>>), profilePic |-> Str(<<"pic2">>), phone |-> Undef,
     age |-> Num(0), address |-> Str(<<>>), medicalHistory |-> Undef],
    [name |-> Undef, profilePic |-> Undef, phone |-> Str(<<"222">>),
     age |-> Num(80), address |-> Str(<<"Agarala">>), medicalHistory |-> Str(<<>>)] }

\* User.findOne({ email }): the index of the first document with that email, 0 for null
FindUser(store, email) ==
  IF \E i \in DOMAIN store : store[i].email = email
    THEN CHOOSE i \in DOMAIN store :
           store[i].email = email /\ \A j \in 1..(i - 1) : store[j].email # email
    ELSE 0

\* new User({ email, name, profilePic, phone, age, address, medicalHistory })
NewUser(email, b) ==
  [email |-> email, name |-> b.name, profilePic |-> b.profilePic, phone |-> b.phone,
   age |-> b.age, address |-> b.address, medicalHistory |-> b.medicalHistory]

\* UpdatedUser with the fallback to the stored value dropped: user.f = f
UpdatedUserOverwriting(u, b) ==
  [email |-> u.email, name |-> b.name, profilePic |-> b.profilePic, phone |-> b.phone,
   age |-> b.age, address |-> b.address, medicalHistory |-> b.medicalHistory]

\* user.f = f || user.f, for every field but the email
UpdatedUser(u, b) ==
  [email |-> u.email,
   name |-> Or(b.name, u.name),
   profilePic |-> Or(b.profilePic, u.profilePic),
   phone |-> Or(b.phone, u.phone),
   age |-> Or(b.age, u.age),
   address |-> Or(b.address, u.address),
   medicalHistory |-> Or(b.medicalHistory, u.medicalHistory)]

\* user.save() of a found document writes it back in place
SaveFoundUser(store, i, u) == [store EXCEPT ![i] = u]

\* user.save() of a new document inserts it
SaveNewUser(store, u) == Append(store, u)

\* History of the requests answered 200: per email, the last non-empty value
\* submitted for each field (undefined while there was none).  Empty is what
\* the handler treats as not provided: undefined, "" and 0.
NonEmpty(v) == v # Undef /\ v # Str(<<>>) /\ v # Num(0)
Latest(new, prev) == IF NonEmpty(new) THEN new ELSE prev
Recorded(prev, b) ==
  [seen |-> TRUE,
   name |-> Latest(b.name, prev.name),
   profilePic |-> Latest(b.profilePic, prev.profilePic),
   phone |-> Latest(b.phone, prev.phone),
   age |-> Latest(b.age, prev.age),
   address |-> Latest(b.address, prev.address),
   medicalHistory |-> Latest(b.medicalHistory, prev.medicalHistory)]
NothingRecorded ==
  [seen |-> FALSE,
   name |-> Undef, profilePic |-> Undef, phone |-> Undef, age |-> Undef,
   address |-> Undef, medicalHistory |-> Undef]

ProfileFails == {"none", "findOne", "save"}

\* app.post('/api/user/profile')
PostProfile(email, b, fail) ==
  LET req == [email |-> email, body |-> b]
      i == FindUser(users, email)
      user == IF i # 0 THEN UpdatedUser(users[i], b) ELSE NewUser(email, b)
  IN
  /\ IF MissingIdentity(email)
       THEN /\ last' = [op |-> "profile", req |-> req, status |-> 400,
                        body |-> [error |-> "Email is required"], calls |-> <<>>]
            /\ UNCHANGED <<users, submitted>>
     ELSE IF fail = "findOne"
       THEN /\ last' = [op |-> "profile", req |-> req, status |-> 500,
                        body |-> [error |-> "Failed to save profile"],
                        calls |-> <<"User.findOne">>]
            /\ UNCHANGED <<users, submitted>>
     ELSE IF fail = "save"
       THEN /\ last' = [op |-> "profile", req |-> req, status |-> 500,
                        body |-> [error |-> "Failed to save profile"],
                        calls |-> <<"User.findOne", "user.save">>]
            /\ UNCHANGED <<users, submitted>>
     ELSE /\ users' = IF i # 0 THEN SaveFoundUser(users, i, user)
                                ELSE SaveNewUser(users, user)
          /\ submitted' = [submitted EXCEPT ![email] =
                             Recorded(@, b)]
          /\ last' = [op |-> "profile", req |-> req, status |-> 200,
                      body |-> [message |-> "Profile saved successfully", user |-> user],
                      calls |-> <<"User.findOne", "user.save">>]
  /\ UNCHANGED <<conversations, agencies, vectorIndex, nextAgencyId, inflight>>

(***************************************************************************)
(* The same handler as two steps, for requests in flight at the same      *)
(* time: the handler runs up to its first await (User.findOne), and on    *)
(* from the value that await gave to the response.  inflight[r] is the    *)
(* position of request r and what it holds in its local variables.        *)
(***************************************************************************)
Requests == {1, 2}
Idle == [pc |-> "idle"]
Null == [null |-> TRUE]

\* email: { unique: true }: the store rejects the insert of a second
\* document with an email it holds (E11000 duplicate key)
DuplicateKey(store, email) == FindUser(store, email) # 0

\* lines 357-361: the request is read and validated; let user = await
\* User.findOne({ email })
ProfileLookup(r, email, b) ==
  LET i == FindUser(users, email)
  IN
  /\ inflight[r] = Idle
  /\ inflight' = [inflight EXCEPT ![r] =
       IF MissingIdentity(email)
         THEN [pc |-> "done", email |-> email, body |-> b, at |-> 0, user |-> Null,
               status |-> 400, resp |-> [error |-> "Email is required"]]
         ELSE [pc |-> "found", email |-> email, body |-> b, at |-> i,
               user |-> IF i # 0 THEN users[i] ELSE Null,
               status |-> 0, resp |-> Null]]
  /\ UNCHANGED <<users, conversations, agencies, vectorIndex, nextAgencyId, last,
                 submitted>>

\* lines 363-379: the fields are assigned to the document found, or a new
\* document is built; await user.save(); the response, or the catch
ProfileSave(r) ==
  LET q == inflight[r]
      user == IF q.at # 0 THEN UpdatedUser(q.user, q.body) ELSE NewUser(q.email, q.body)
      Done(status, resp) ==
        inflight' = [inflight EXCEPT ![r].pc = "done", ![r].status = status,
                                     ![r].resp = resp]
  IN
  /\ inflight[r].pc = "found"
  /\ IF q.at = 0 /\ DuplicateKey(users, q.email)
       THEN /\ Done(500, [error |-> "Failed to save profile"])
            /\ UNCHANGED users
       ELSE /\ Done(200, [message |-> "Profile saved successfully", user |-> user])
            /\ users' = IF q.at # 0 THEN SaveFoundUser(users, q.at, user)
                                     ELSE SaveNewUser(users, user)
  /\ UNCHANGED <<conversations, agencies, vectorIndex, nextAgencyId, last, submitted>>

(***************************************************************************)
(* External collaborators: embedding client, vector index, generation     *)
(* client.                                                                 *)
(***************************************************************************)
HistoryWindow == 30
TopK == 5
TitleMax == 50

\* getEmbedding(text): the vector is a function of the text alone
Embed(text) == [of |-> text]

\* index.query({ vector, topK, includeMetadata: true }).matches: at most topK
\* records; the ranking by distance is the index's, taken here as its order
Query(idx, vector, k) == SubSeq(idx, 1, Min(k, Len(idx)))

\* agencyContext: one line per match, or the fixed marker
AgencyContext(matches) ==
  IF Len(matches) > 0
    THEN [lines |-> [i \in DOMAIN matches |-> matches[i].metadata]]
    ELSE [none |-> "No specific agencies found."]

\* ReadsProfile with the guard dropped: user.name is read whatever findOne gave
ReadsProfileUnguarded(u) == TRUE

\* if (user) { ... user.name ... }: the chat handler reads the profile's fields
\* only when findOne returned a document (reading them on null throws)
ReadsProfile(u) == u # 0

\* userContext of the chat prompt
ChatUserContext(store, u) ==
  IF ReadsProfile(u)
    THEN [profile |-> [name |-> store[u].name, age |-> store[u].age,
                       medicalHistory |-> store[u].medicalHistory,
                       address |-> store[u].address]]
    ELSE [anonymous |-> "User Profile: Anonymous."]

(***************************************************************************)
(* Text handling of the generation client's output.                       *)
(***************************************************************************)
\* the code-fence delimiters: three backquotes followed by json, and three backquotes
FenceJson == "<fence>json"
Fence == "<fence>"
IsFence(tok) == tok = FenceJson \/ tok = Fence
IsSpace(tok) == tok = " " \/ tok = "\n"

\* .replace(/<fence>json/g, '').replace(/<fence>/g, '')
StripFences(t) == SelectSeq(t, LAMBDA tok : ~IsFence(tok))

\* .trim()
RECURSIVE TrimLeft(_)
TrimLeft(t) == IF t # <<>> /\ IsSpace(Head(t)) THEN TrimLeft(Tail(t)) ELSE t
RECURSIVE TrimRight(_)
TrimRight(t) ==
  IF t # <<>> /\ IsSpace(t[Len(t)]) THEN TrimRight(SubSeq(t, 1, Len(t) - 1)) ELSE t
Trim(t) == TrimRight(TrimLeft(t))

\* result.response.text().replace(...).replace(...).trim()
CleanText(t) == Trim(StripFences(t))

\* The JSON documents the generation client is taken to produce, as single
\* tokens, with the value JSON.parse gives for each
JsonValue(tok) ==
  CASE tok = "{reply:r1,recommendations:[c1]}" ->
         [kind |-> "object", reply |-> Str(<<"r1">>), recommendations |-> List(<<"c1">>)]
    [] tok = "{reply:r1}" ->
         [kind |-> "object", reply |-> Str(<<"r1">>), recommendations |-> Undef]
    [] tok = "{recommendations:[]}" ->
         [kind |-> "object", reply |-> Undef, recommendations |-> List(<<>>)]
    [] tok = "null" -> [kind |-> "null"]
    [] tok = "\"hi\"" -> [kind |-> "string"]
    [] OTHER -> [kind |-> "SyntaxError"]

\* JSON.parse(rawText): one JSON document, or a SyntaxError
JsonParse(t) == IF Len(t) = 1 THEN JsonValue(t[1]) ELSE [kind |-> "SyntaxError"]

\* try { JSON.parse(rawText) } catch { { reply: rawText, recommendations: [] } }
ParsedResponse(rawText) ==
  IF JsonParse(rawText).kind = "SyntaxError"
    THEN [kind |-> "object", reply |-> Str(rawText), recommendations |-> List(<<>>)]
    ELSE JsonParse(rawText)

\* v.reply and v.recommendations: a property of null throws, a property a
\* value does not have is undefined
Throws(v) == v.kind = "null"
Reply(v) == IF v.kind = "object" THEN v.reply ELSE Undef
Recommendations(v) == IF v.kind = "object" THEN v.recommendations ELSE Undef

\* titleResult.response.text().replace(/['"\n]/g, '').substring(0, 50).trim()
IsQuoteOrNewline(tok) == tok = "'" \/ tok = "\"" \/ tok = "\n"
CleanTitle(t) ==
  LET unquoted == SelectSeq(t, LAMBDA tok : ~IsQuoteOrNewline(tok))
  IN Str(Trim(SubSeq(unquoted, 1, Min(TitleMax, Len(unquoted)))))

(***************************************************************************)
(* Conversation store: conversationSchema.  A document's _id is its       *)
(* position; documents are never deleted, so createdAt follows _id.       *)
(***************************************************************************)
NoConvId == 0
MalformedId == -1

\* Conversation.findById(id): the _id found, 0 for null (a malformed id rejects)
FindConv(store, id) == IF id \in DOMAIN store THEN id ELSE 0

\* Transcript taking the first 30 messages: slice(0, 30)
TranscriptOfOldest(messages) ==
  LET recentMsgs == SubSeq(messages, 1, Min(HistoryWindow, Len(messages)))
  IN [i \in DOMAIN recentMsgs |->
        [sender |-> IF recentMsgs[i].sender = "user" THEN "USER" ELSE "BOT",
         text |-> recentMsgs[i].text]]

\* recentMsgs = chat.messages.slice(-30), one "SENDER: text" line per message
UpperCase(sender) == IF sender = "user" THEN "USER" ELSE "BOT"
Transcript(messages) ==
  LET recentMsgs == SliceLast(messages, HistoryWindow)
  IN [i \in DOMAIN recentMsgs |->
        [sender |-> UpperCase(recentMsgs[i].sender), text |-> recentMsgs[i].text]]

\* the two entries one exchange adds
Exchange(message, reply) ==
  <<[sender |-> "user", text |-> message], [sender |-> "bot", text |-> reply]>>

\* AppendExchange assigning the list instead of pushing to it
AppendExchangeReplacing(store, c, message, reply) ==
  [store EXCEPT ![c].messages = Exchange(message, reply)]

\* conversation.messages.push(user); conversation.messages.push(bot); save()
AppendExchange(store, c, message, reply) ==
  [store EXCEPT ![c].messages = @ \o Exchange(message, reply)]

\* new Conversation({ user_email, title, messages: [user, bot] }).save()
CreateConversation(store, user_email, title, message, reply) ==
  Append(store, [user_email |-> user_email, title |-> title,
                 messages |-> Exchange(message, reply)])

\* Save writing the document although the promise rejects
SaveWritingThenRejecting(store, written, resolves) == written

\* await conversation.save(): the document is written when the promise
\* resolves; a save that rejects has written nothing
Save(store, written, resolves) == IF resolves THEN written ELSE store

\* Lookups loading the conversation whether or not a reference was supplied
LookupsUnguarded(continuing) == <<"User.findOne", "Conversation.findById">>

\* the lookups awaited before the embedding: the profile, then the
\* conversation if (conversationId)
Lookups(continuing) ==
  <<"User.findOne">> \o (IF continuing THEN <<"Conversation.findById">> ELSE <<>>)

ChatFails ==
  {"none", "User.findOne", "findById", "embed", "query", "generate",
   "findById2", "title", "save"}

ChatError(req, calls, fault, prompt) ==
  [op |-> "chat", req |-> req, status |-> 500,
   body |-> [error |-> "Something went wrong"], calls |-> calls, fault |-> fault,
   prompt |-> prompt]

NoPrompt == [none |-> TRUE]

\* app.post('/api/chat')
PostChat(user_email, message, conversationId, genText, titleText, fail) ==
  LET req == [user_email |-> user_email, message |-> message,
              conversationId |-> conversationId, genText |-> genText,
              titleText |-> titleText]
      u == FindUser(users, user_email)
      continuing == conversationId # NoConvId
      chat == FindConv(conversations, conversationId)
      chatHistory == IF continuing /\ chat # 0
                       THEN Transcript(conversations[chat].messages) ELSE <<>>
      matches == Query(vectorIndex, Embed(message), TopK)
      prompt == [userContext |-> ChatUserContext(users, u),
                 chatHistory |-> chatHistory,
                 agencyContext |-> AgencyContext(matches),
                 message |-> message]
      rawText == CleanText(genText)
      parsedResponse == ParsedResponse(rawText)
      conversation == FindConv(conversations, conversationId)
      title == IF continuing THEN conversations[conversation].title
                             ELSE CleanTitle(titleText)
      newId == IF continuing THEN conversation ELSE Len(conversations) + 1
      lookups == Lookups(continuing)
      generated == lookups \o <<"embedContent", "index.query", "generateContent">>
      second == generated \o
                (IF continuing THEN <<"Conversation.findById">> ELSE <<"generateContent">>)
      written == IF continuing
                   THEN AppendExchange(conversations, conversation, message,
                                       Reply(parsedResponse))
                   ELSE CreateConversation(conversations, user_email, title, message,
                                           Reply(parsedResponse))
      Fail(calls, fault, p) ==
        /\ last' = ChatError(req, calls, fault, p)
        /\ UNCHANGED conversations
  IN
  /\ IF MissingIdentity(user_email)
       THEN /\ last' = [op |-> "chat", req |-> req, status |-> 400,
                        body |-> [error |-> "user_email is required"],
                        calls |-> <<>>, fault |-> "none", prompt |-> NoPrompt]
            /\ UNCHANGED conversations
     ELSE IF fail = "User.findOne" THEN Fail(<<"User.findOne">>, "downstream", NoPrompt)
     ELSE IF ReadsProfile(u) /\ u = 0 THEN Fail(<<"User.findOne">>, "TypeError", NoPrompt)
     ELSE IF continuing /\ conversationId = MalformedId
       THEN Fail(lookups, "CastError", NoPrompt)
     ELSE IF continuing /\ fail = "findById" THEN Fail(lookups, "downstream", NoPrompt)
     ELSE IF fail = "embed"
       THEN Fail(lookups \o <<"embedContent">>, "downstream", NoPrompt)
     ELSE IF fail = "query"
       THEN Fail(lookups \o <<"embedContent", "index.query">>, "downstream", NoPrompt)
     ELSE IF fail = "generate" THEN Fail(generated, "downstream", prompt)
     ELSE IF continuing /\ fail = "findById2" THEN Fail(second, "downstream", prompt)
     ELSE IF ~continuing /\ fail = "title" THEN Fail(second, "downstream", prompt)
     ELSE IF continuing /\ conversation = 0 THEN Fail(second, "TypeError", prompt)
     ELSE IF Throws(parsedResponse) THEN Fail(second, "TypeError", prompt)
     ELSE IF fail = "save"
       THEN /\ last' = ChatError(req, second \o <<"conversation.save">>, "downstream",
                                 prompt)
            /\ conversations' = Save(conversations, written, FALSE)
     ELSE /\ conversations' = Save(conversations, written, TRUE)
          /\ last' = [op |-> "chat", req |-> req, status |-> 200,
                      body |-> [reply |-> Reply(parsedResponse),
                                recommendations |-> Recommendations(parsedResponse),
                                conversationId |-> newId,
                                title |-> title],
                      calls |-> second \o <<"conversation.save">>,
                      fault |-> "none", prompt |-> prompt]
  /\ UNCHANGED <<users, agencies, vectorIndex, nextAgencyId, submitted,
               inflight>>

(***************************************************************************)
(* GET /api/chat/history                                                   *)
(***************************************************************************)
DefaultLimit == 10

\* Conversation.find({ user_email }).sort({ createdAt: -1 }): the user's
\* conversations, newest first
SortedHistory(store, user_email) ==
  LET newestFirst == [k \in 1..Len(store) |-> Len(store) + 1 - k]
  IN SelectSeq(newestFirst, LAMBDA i : store[i].user_email = user_email)

\* .skip(n).limit(m): limit(0) is no limit
SkipLimit(sorted, n, m) ==
  LET rest == SubSeq(sorted, n + 1, Len(sorted))
  IN IF m = 0 THEN rest ELSE SubSeq(rest, 1, Min(m, Len(rest)))

\* the last message's text, whose substring(0, 50) throws when it is undefined
LastText(chat) == IF Len(chat.messages) > 0 THEN chat.messages[Len(chat.messages)].text
                                             ELSE Str(<<>>)
Preview(text) == [first50 |-> text, then |-> "..."]

\* one entry of formattedHistory
Summary(store, i) ==
  [conversationId |-> i,
   title |-> Or(store[i].title, Str(<<"New Chat">>)),
   date |-> i,
   lastMessage |-> IF Len(store[i].messages) > 0 THEN Preview(LastText(store[i]))
                                                 ELSE Preview(Str(<<>>))]

\* HasMore answering whether the page has any entry at all
HasMoreWhenNonEmpty(history, limit) == Len(history) > 0

\* hasMore: history.length === parseInt(limit)
HasMore(history, limit) == Len(history) = limit

HistoryFails == {"none", "find"}

\* app.get('/api/chat/history')
GetHistory(user_email, page, limit, fail) ==
  LET req == [user_email |-> user_email, page |-> page, limit |-> limit]
      history == SkipLimit(SortedHistory(conversations, user_email),
                           (page - 1) * limit, limit)
  IN
  /\ IF MissingIdentity(user_email)
       THEN last' = [op |-> "history", req |-> req, status |-> 400,
                     body |-> [error |-> "user_email is required"], calls |-> <<>>]
     ELSE IF fail = "find" \/ \E k \in DOMAIN history :
                                 LastText(conversations[history[k]]) = Undef
       THEN last' = [op |-> "history", req |-> req, status |-> 500,
                     body |-> [error |-> "Failed to fetch history"],
                     calls |-> <<"Conversation.find">>]
     ELSE last' = [op |-> "history", req |-> req, status |-> 200,
                   body |-> [history |-> [k \in DOMAIN history |->
                                            Summary(conversations, history[k])],
                             hasMore |-> HasMore(history, limit)],
                   calls |-> <<"Conversation.find">>]
  /\ UNCHANGED <<users, conversations, agencies, vectorIndex, nextAgencyId, submitted,
               inflight>>

(***************************************************************************)
(* POST /api/audit-image                                                   *)
(***************************************************************************)
\* imageBase64.includes(",") ? imageBase64.split(",")[1] : imageBase64
RECURSIVE UpToComma(_)
UpToComma(t) == IF t = <<>> \/ Head(t) = "," THEN <<>> ELSE <<Head(t)>> \o UpToComma(Tail(t))
RECURSIVE AfterComma(_)
AfterComma(t) == IF t = <<>> THEN <<>>
                 ELSE IF Head(t) = "," THEN Tail(t) ELSE AfterComma(Tail(t))
Base64Data(image) ==
  IF "str" \in DOMAIN image /\ \E i \in DOMAIN image.str : image.str[i] = ","
    THEN Str(UpToComma(AfterComma(image.str)))
    ELSE image

\* console.log(`... Context: ${user.medicalHistory || "None"}`): the audit
\* handler reads the profile's medicalHistory whatever findOne gave
LogReadsProfile(u) == TRUE

\* userContext of the audit prompt
AuditUserContext(store, u) ==
  IF u # 0 THEN [profile |-> [age |-> store[u].age,
                              medicalHistory |-> store[u].medicalHistory]]
           ELSE [default |-> "User is an elderly individual."]

\* AuditRejection without the image check
AuditRejectionEmailOnly(user_email, imageBase64) ==
  IF user_email = NoEmail THEN "user_email is required" ELSE "none"

\* the validation of the audit request: the error it is rejected with
AuditRejection(user_email, imageBase64) ==
  IF user_email = NoEmail THEN "user_email is required"
  ELSE IF ~Truthy(imageBase64) THEN "No image provided"
  ELSE "none"

AuditFails == {"none", "User.findOne", "generate"}

\* app.post('/api/audit-image')
PostAuditImage(user_email, imageBase64, roomType, genText, fail) ==
  LET req == [user_email |-> user_email, imageBase64 |-> imageBase64,
              roomType |-> roomType, genText |-> genText]
      u == FindUser(users, user_email)
      prompt == [userContext |-> AuditUserContext(users, u),
                 roomType |-> Or(roomType, Str(<<"room">>))]
      Answer(status, body, calls, sent) ==
        last' = [op |-> "audit", req |-> req, status |-> status, body |-> body,
                 calls |-> calls, sent |-> sent]
  IN
  /\ IF AuditRejection(user_email, imageBase64) # "none"
       THEN Answer(400, [error |-> AuditRejection(user_email, imageBase64)], <<>>,
                   NoPrompt)
     ELSE IF fail = "User.findOne"
       THEN Answer(500, [error |-> "Vision Analysis Failed: "], <<"User.findOne">>,
                   NoPrompt)
     ELSE IF LogReadsProfile(u) /\ u = 0
       THEN Answer(500, [error |-> "Vision Analysis Failed: TypeError"],
                   <<"User.findOne">>, NoPrompt)
     ELSE IF fail = "generate"
       THEN Answer(500, [error |-> "Vision Analysis Failed: "],
                   <<"User.findOne", "generateContent">>,
                   [prompt |-> prompt, inlineData |-> Base64Data(imageBase64)])
     ELSE Answer(200, [audit_report |-> Str(CleanText(genText))],
                 <<"User.findOne", "generateContent">>,
                 [prompt |-> prompt, inlineData |-> Base64Data(imageBase64)])
  /\ UNCHANGED <<users, conversations, agencies, vectorIndex, nextAgencyId, submitted,
               inflight>>

(***************************************************************************)
(* Agency catalog and vector index: seed.js and POST /api/seed-vectors    *)
(***************************************************************************)
\* data/agencies.json
AgencyFiles ==
  { <<[name |-> "Care Home", area |-> "Agarala", services |-> <<"elderly_care">>,
       rating |-> 5]>>,
    <<[name |-> "Care Home", area |-> "Agarala", services |-> <<"elderly_care">>,
       rating |-> 4],
      [name |-> "Nurse Now", area |-> "KT Road",
       services |-> <<"nursing", "physio">>, rating |-> 3]>> }

\* Agency.insertMany(agencies): every inserted document gets a fresh _id
InsertMany(file, firstId) ==
  [i \in DOMAIN file |->
     [_id |-> firstId + i - 1, name |-> file[i].name, area |-> file[i].area,
      services |-> file[i].services, rating |-> file[i].rating]]

SeedDbFails == {"none", "connect", "deleteMany", "insertMany"}

\* seedDatabase() of seed.js
SeedDatabase(file, fail) ==
  /\ IF fail \in {"connect", "deleteMany"}
       THEN UNCHANGED <<agencies, nextAgencyId>>
     ELSE IF fail = "insertMany"
       THEN agencies' = <<>> /\ UNCHANGED nextAgencyId
     ELSE /\ agencies' = InsertMany(file, nextAgencyId)
          /\ nextAgencyId' = nextAgencyId + Len(file)
  /\ last' = [op |-> "seed.js", status |-> IF fail = "none" THEN 0 ELSE 1,
              calls |-> <<>>]
  /\ UNCHANGED <<users, conversations, vectorIndex, submitted,
               inflight>>

\* array.join(', ')
Join(items) == [joined |-> items, sep |-> ", "]

\* textToEmbed of one agency
TextToEmbed(agency) ==
  [name |-> agency.name, services |-> Join(agency.services), area |-> agency.area,
   rating |-> agency.rating]

\* the record pushed to vectors for one agency
VectorOf(agency) ==
  [id |-> agency._id,
   values |-> Embed(TextToEmbed(agency)),
   metadata |-> [name |-> agency.name, area |-> agency.area,
                 services |-> Join(agency.services), rating |-> agency.rating]]

\* UpsertOne as a plain insert
UpsertOneInserting(idx, v) == Append(idx, v)

\* index.upsert of one record: overwrite the record with that id, else add it
UpsertOne(idx, v) ==
  IF \E i \in DOMAIN idx : idx[i].id = v.id
    THEN [i \in DOMAIN idx |-> IF idx[i].id = v.id THEN v ELSE idx[i]]
    ELSE Append(idx, v)

\* index.upsert(vectors)
RECURSIVE Upsert(_, _)
Upsert(idx, vectors) ==
  IF vectors = <<>> THEN idx ELSE Upsert(UpsertOne(idx, Head(vectors)), Tail(vectors))

\* IndexAfterAbort with each record upserted as soon as it is embedded
IndexAfterAbortUpsertingEach(idx, vectors, n) == Upsert(idx, SubSeq(vectors, 1, n))

\* the index when an exception leaves the handler after n agencies were
\* embedded: their records are in the local array vectors only, and
\* index.upsert, which follows the loop, is not reached
IndexAfterAbort(idx, vectors, n) == idx

\* app.post('/api/seed-vectors'); failAt is the agency whose embedding fails
PostSeedVectors(fail, failAt) ==
  LET vectors == [i \in DOMAIN agencies |-> VectorOf(agencies[i])]
      embedded(n) == [i \in 1..n |-> "embedContent"]
      wasSeeded == last.op = "seed" /\ last.status = 200
      Answer(status, body, calls) ==
        last' = [op |-> "seed", status |-> status, body |-> body, calls |-> calls,
                 indexBefore |-> vectorIndex, afterSeed |-> wasSeeded]
  IN
  /\ IF fail = "find"
       THEN Answer(500, [error |-> "find"], <<"Agency.find">>)
            /\ vectorIndex' = IndexAfterAbort(vectorIndex, <<>>, 0)
     ELSE IF fail = "embed" /\ failAt \in DOMAIN agencies
       THEN Answer(500, [error |-> "embed"], <<"Agency.find">> \o embedded(failAt))
            /\ vectorIndex' = IndexAfterAbort(vectorIndex, vectors, failAt - 1)
     ELSE IF fail = "upsert" /\ Len(vectors) > 0
       THEN Answer(500, [error |-> "upsert"],
                   <<"Agency.find">> \o embedded(Len(vectors)) \o <<"index.upsert">>)
            /\ UNCHANGED vectorIndex
     ELSE /\ Answer(200, [embedded |-> Len(vectors)],
                    <<"Agency.find">> \o embedded(Len(vectors)) \o
                    (IF Len(vectors) > 0 THEN <<"index.upsert">> ELSE <<>>))
          /\ vectorIndex' = IF Len(vectors) > 0 THEN Upsert(vectorIndex, vectors)
                                                ELSE vectorIndex
  /\ UNCHANGED <<users, conversations, agencies, nextAgencyId, submitted,
               inflight>>

SeedFails == {"none", "find", "embed", "upsert"}

Init ==
  /\ users = <<>>
  /\ conversations = <<>>
  /\ agencies = <<>>
  /\ vectorIndex = <<>>
  /\ nextAgencyId = 1
  /\ last = [op |-> "none", status |-> 0, calls |-> <<>>]
  /\ submitted = [e \in Emails |-> NothingRecorded]
  /\ inflight = [r \in Requests |-> Idle]

(***************************************************************************)
(* Inputs                                                                  *)
(***************************************************************************)
Messages == {Str(<<"m1">>), Str(<<"m2">>)}

FullJson == "{reply:r1,recommendations:[c1]}"
GoodGen == <<FenceJson, "\n", FullJson, "\n", Fence>>
GenTexts ==
  { GoodGen,
    <<"{reply:r1}">>,
    <<"{recommendations:[]}">>,
    <<"null">>,
    <<"\"hi\"">>,
    <<"Sorry,", " ", FenceJson, "no match", Fence, "\n">> }

GoodTitle == <<"Nurse help">>
LongTitle == [i \in 1..(TitleMax + 1) |-> "x"]
TitleTexts == {GoodTitle, <<"\"", "Care", "\"", "\n">>, LongTitle}

ConvIds == {NoConvId, MalformedId} \cup (1..(MaxExchanges + 1))

ChatBody == [name |-> Str(<<"Asha">>), profilePic |-> Undef, phone |-> Undef,
             age |-> Num(75), address |-> Str(<<"KT Road">>),
             medicalHistory |-> Str(<<"Diabetic">>)]

Images == {Undef, Str(<<>>), Str(<<"AAAA">>),
           Str(<<"data:image/jpeg;base64", ",", "AAAA">>)}
RoomTypes == {Undef, Str(<<"Bathroom">>)}
AuditTexts == {<<FenceJson, "{safety_score:2}", Fence>>, <<"All is well">>}

Limits == {DefaultLimit, 2}

NextProfile ==
  \E email \in Emails \cup {NoEmail}, b \in ProfileBodies, fail \in ProfileFails :
    PostProfile(email, b, fail)

SpecProfile == Init /\ [][NextProfile]_vars

(***************************************************************************)
(* Specifications.  They share Init and the handlers and differ in the    *)
(* inputs they draw.                                                       *)
(***************************************************************************)
\* the number of exchanges the conversation store holds, and its bound
RECURSIVE Entries(_)
Entries(store) ==
  IF store = <<>> THEN 0 ELSE Len(Head(store).messages) + Entries(Tail(store))
Room(maxExchanges) == Entries(conversations) < 2 * maxExchanges

\* chat over a small profile store
Next ==
  \/ PostProfile("a@x", ChatBody, "none")
  \/ \E e \in Emails \cup {NoEmail}, id \in ConvIds, g \in GenTexts :
       /\ Room(MaxExchanges)
       /\ PostChat(e, Str(<<"m1">>), id, g, GoodTitle, "none")
  \/ \E e \in Emails, id \in ConvIds, f \in ChatFails :
       /\ Room(MaxExchanges)
       /\ PostChat(e, Str(<<"m1">>), id, GoodGen, GoodTitle, f)

Spec == Init /\ [][Next]_vars

\* history listing over conversations created by chat requests
NextHistory ==
  \/ \E e \in Emails :
       /\ Room(MaxHistory)
       /\ PostChat(e, Str(<<"m1">>), NoConvId, GoodGen, GoodTitle, "none")
  \/ \E e \in Emails, page \in 1..MaxPage, limit \in Limits :
       GetHistory(e, page, limit, "none")
  \/ \E e \in {NoEmail, "a@x"}, f \in HistoryFails : GetHistory(e, 1, DefaultLimit, f)

SpecHistory == Init /\ [][NextHistory]_vars

\* audit requests over a small profile store
NextAudit ==
  \/ \E email \in Emails : PostProfile(email, ChatBody, "none")
  \/ \E e \in Emails \cup {NoEmail}, img \in Images, room \in RoomTypes,
        g \in AuditTexts, f \in AuditFails :
       PostAuditImage(e, img, room, g, f)

SpecAudit == Init /\ [][NextAudit]_vars

\* catalog loading and vector seeding
NextSeed ==
  \/ \E file \in AgencyFiles, f \in SeedDbFails :
       /\ nextAgencyId + Len(file) - 1 <= MaxAgencyId
       /\ SeedDatabase(file, f)
  \/ \E f \in SeedFails, k \in 1..2 : PostSeedVectors(f, k)
  \/ \E m \in Messages, t \in TitleTexts :
       /\ Room(1)
       /\ PostChat("a@x", m, NoConvId, GoodGen, t, "none")

SpecSeed == Init /\ [][NextSeed]_vars


\* chat continuing a long stored conversation: the store holds one
\* conversation of n entries, written by n/2 earlier exchanges
MaxStored == 34
StoredText(i) == Str(<<"e" \o ToString(i)>>)
StoredConversation(n) ==
  [user_email |-> "a@x", title |-> Str(GoodTitle),
   messages |-> [i \in 1..n |->
                   [sender |-> IF i % 2 = 1 THEN "user" ELSE "bot",
                    text |-> StoredText(i)]]]

InitTranscript ==
  /\ users = <<>>
  /\ \E n \in {k \in 2..MaxStored : k % 2 = 0} :
       conversations = <<StoredConversation(n)>>
  /\ agencies = <<>>
  /\ vectorIndex = <<>>
  /\ nextAgencyId = 1
  /\ last = [op |-> "none", status |-> 0, calls |-> <<>>]
  /\ submitted = [e \in Emails |-> NothingRecorded]
  /\ inflight = [r \in Requests |-> Idle]

NextTranscript ==
  \E id \in {1, 2}, g \in {GoodGen, <<"null">>}, f \in {"none", "generate", "save"} :
    /\ Room(MaxStored \div 2 + 1)
    /\ PostChat("a@x", Str(<<"m2">>), id, g, GoodTitle, f)

SpecTranscript == InitTranscript /\ [][NextTranscript]_vars

\* the three handlers that take an identity, with and without one
NextIdentity ==
  \/ \E e \in Emails \cup {NoEmail} : PostProfile(e, ChatBody, "none")
  \/ \E e \in Emails \cup {NoEmail}, id \in {NoConvId, 1} :
       /\ Room(MaxExchanges)
       /\ PostChat(e, Str(<<"m1">>), id, GoodGen, GoodTitle, "none")
  \/ \E e \in Emails \cup {NoEmail}, limit \in Limits : GetHistory(e, 1, limit, "none")

SpecIdentity == Init /\ [][NextIdentity]_vars

\* two profile requests in flight at the same time
NextConcurrent ==
  \E r \in Requests :
    \/ \E email \in Emails \cup {NoEmail}, b \in ProfileBodies : ProfileLookup(r, email, b)
    \/ ProfileSave(r)

SpecConcurrent == Init /\ [][NextConcurrent]_vars

(***************************************************************************)
(* Properties                                                              *)
(***************************************************************************)
ProfileFields == {"name", "profilePic", "phone", "age", "address", "medicalHistory"}
ProfilesOf(e) == {i \in DOMAIN users : users[i].email = e}

\* C1: after any sequence of profile submissions carrying an email (those the
\* store accepted), the profile store holds exactly one record for each
\* submitted email and none for the others, and each field of that record is
\* the most recent non-empty value submitted for it; a field that never got a
\* non-empty value is still empty.
C1_ProfileUpsert ==
  \A e \in Emails :
    IF submitted[e].seen
      THEN /\ Cardinality(ProfilesOf(e)) = 1
           /\ \A i \in ProfilesOf(e) : \A f \in ProfileFields :
                IF NonEmpty(submitted[e][f]) THEN users[i][f] = submitted[e][f]
                                             ELSE ~NonEmpty(users[i][f])
      ELSE ProfilesOf(e) = {}

\* a second submission for a stored email overwrote profilePic, and kept the
\* name, age and address for which it carried "", 0 and ""
C1_Witness ==
  /\ last.op = "profile" /\ last.status = 200
  /\ last.req.body.name = Str(<<>>) /\ last.req.body.age = Num(0)
  /\ last.req.body.profilePic = Str(<<"pic2">>)
  /\ \E i \in ProfilesOf(last.req.email) :
       /\ users[i].name = Str(<<"Asha R">>)
       /\ users[i].age = Num(75)
       /\ users[i].profilePic = Str(<<"pic2">>)
       /\ users[i].address = Str(<<"KT Road">>)

\* a chat request that carried a user_email, and whose external calls all
\* returned (no call failed, no lookup rejected the reference)
ChatAnswered == last.op = "chat" /\ last.req.user_email # NoEmail
CallsSucceeded == last.fault \notin {"downstream", "CastError"}

\* the conversation a 200 response refers to ends with the request's message
\* followed by the reply of the response
EndsWithExchange(id) ==
  /\ id \in DOMAIN conversations
  /\ LET msgs == conversations[id].messages
     IN /\ Len(msgs) >= 2
        /\ msgs[Len(msgs) - 1] = [sender |-> "user", text |-> last.req.message]
        /\ msgs[Len(msgs)] = [sender |-> "bot", text |-> last.body.reply]

\* C2: a chat request with a user_email whose downstream calls all succeed is
\* answered 200 and persisted, the response carrying the reference of the
\* conversation that now ends with the user message followed by the reply;
\* a request without a reference creates that conversation, holding just the
\* two.  This for every supplied reference, including one that matches no
\* stored conversation.
C2_ExchangePersisted ==
  (ChatAnswered /\ CallsSucceeded) =>
     /\ last.status = 200
     /\ EndsWithExchange(last.body.conversationId)
     /\ last.req.conversationId = NoConvId =>
          /\ last.body.conversationId = Len(conversations)
          /\ Len(conversations[last.body.conversationId].messages) = 2

\* a request naming a reference that matches no stored conversation, all of
\* whose calls returned and whose output parsed to an object
C2_DanglingReference ==
  /\ ChatAnswered /\ CallsSucceeded
  /\ last.req.conversationId \notin DOMAIN conversations
  /\ last.req.conversationId # NoConvId
  /\ last.req.genText = GoodGen

\* C3: every 200 response of a chat request contains a reply text, a list of
\* recommendations, a conversation reference and a title, whatever the
\* generation client returned.
C3_ResponseShape ==
  (last.op = "chat" /\ last.status = 200) =>
     /\ "str" \in DOMAIN last.body.reply
     /\ "list" \in DOMAIN last.body.recommendations
     /\ last.body.conversationId \in DOMAIN conversations
     /\ "str" \in DOMAIN last.body.title

\* C4: when the cleaned output of the generation client does not parse as
\* JSON, the chat request (its calls succeeding) is answered 200 with the
\* whole cleaned output as reply and an empty recommendation list, and that
\* output is persisted as the bot's entry.
ParseFailed == JsonParse(CleanText(last.req.genText)).kind = "SyntaxError"
C4_RawReplyOnParseFailure ==
  (ChatAnswered /\ CallsSucceeded /\ ParseFailed) =>
     /\ last.status = 200
     /\ last.body.reply = Str(CleanText(last.req.genText))
     /\ last.body.recommendations = List(<<>>)
     /\ EndsWithExchange(last.body.conversationId)

\* C9: a chat request whose user_email matches no stored profile does not
\* fail for that reason.  Its prompt carries the anonymous context; unless an
\* external call fails it goes through embedding, vector query and
\* generation; an exception it ends with is one a stored profile would not
\* have prevented (the reference matches no conversation, or the output
\* parsed to null); otherwise it is answered 200 with the reply.
UnknownUser == ChatAnswered /\ FindUser(users, last.req.user_email) = 0
Generated(calls) ==
  \E k \in DOMAIN calls :
    /\ k + 2 <= Len(calls)
    /\ SubSeq(calls, k, k + 2) = <<"embedContent", "index.query", "generateContent">>
    /\ \E j \in 1..(k - 1) : calls[j] = "User.findOne"
C9_UnknownUserStillAnswered ==
  UnknownUser =>
     /\ last.prompt # NoPrompt =>
          last.prompt.userContext = [anonymous |-> "User Profile: Anonymous."]
     /\ CallsSucceeded => Generated(last.calls)
     /\ last.fault = "TypeError" =>
          \/ /\ last.req.conversationId # NoConvId
             /\ last.req.conversationId \notin DOMAIN conversations
          \/ Throws(ParsedResponse(CleanText(last.req.genText)))
     /\ last.fault = "none" =>
          /\ last.status = 200
          /\ last.body.reply = Reply(ParsedResponse(CleanText(last.req.genText)))

\* an unknown user's request, answered 200 with the reply of the output
C9_Witness ==
  /\ UnknownUser /\ last.status = 200
  /\ last.body.reply = Str(<<"r1">>)
  /\ last.prompt.userContext = [anonymous |-> "User Profile: Anonymous."]
  /\ users # <<>>

\* C5: seeding twice in succession over an unchanged catalog leaves the
\* vector index as the first run left it, with exactly one record for each
\* catalog entry, identified by the entry's key.
RecordsOf(agency) == {i \in DOMAIN vectorIndex : vectorIndex[i].id = agency._id}
SeededTwice == last.op = "seed" /\ last.status = 200 /\ last.afterSeed
C5_SeedIdempotent ==
  SeededTwice =>
     /\ vectorIndex = last.indexBefore
     /\ \A k \in DOMAIN agencies :
          /\ Cardinality(RecordsOf(agencies[k])) = 1
          /\ \A i \in RecordsOf(agencies[k]) : vectorIndex[i] = VectorOf(agencies[k])

\* the second of two seedings of a catalog of two agencies
C5_Witness == SeededTwice /\ Len(agencies) = 2 /\ Len(vectorIndex) >= 2

\* C6: an audit request that lacks imageBase64 or lacks user_email is
\* answered 400, and no profile lookup is made and nothing is sent to the
\* generation client.
AuditIncomplete ==
  /\ last.op = "audit"
  /\ last.req.user_email = NoEmail \/ last.req.imageBase64 \in {Undef, Str(<<>>)}
C6_AuditValidation ==
  AuditIncomplete =>
     /\ last.status = 400
     /\ last.calls = <<>>
     /\ last.sent = NoPrompt

\* a request of a stored user without the image, rejected
C6_Witness ==
  /\ AuditIncomplete /\ last.status = 400
  /\ last.req.imageBase64 = Undef
  /\ FindUser(users, last.req.user_email) # 0

\* C7: hasMore of a history response is true exactly when the returned page
\* holds as many summaries as the requested limit; with limit 10 on page 1,
\* it is true for a user with exactly 10 conversations and false with 9.
HistoryAnswered == last.op = "history" /\ last.status = 200
Matching == Len(SortedHistory(conversations, last.req.user_email))
LastReturned == last.body.history[Len(last.body.history)].conversationId
MorePagesExist ==
  /\ last.body.history # <<>>
  /\ \E i \in DOMAIN conversations :
       /\ conversations[i].user_email = last.req.user_email
       /\ i < LastReturned
C8_HasMoreIffMorePages == HistoryAnswered => (last.body.hasMore <=> MorePagesExist)

\* C10: when a chat request continues a stored conversation of n entries,
\* the transcript in its prompt is the last min(30, n) entries in stored
\* order: no older entry, and nothing after the last stored entry (the
\* message of the request itself is not in it).
StoredBefore ==
  LET msgs == conversations[last.req.conversationId].messages
  IN IF last.status = 200 THEN SubSeq(msgs, 1, Len(msgs) - 2) ELSE msgs
Continued ==
  /\ last.op = "chat" /\ last.prompt # NoPrompt
  /\ last.req.conversationId \in DOMAIN conversations
C10_TranscriptWindow ==
  Continued =>
    LET n == Len(StoredBefore)
        shown == last.prompt.chatHistory
        count == Min(30, n)
    IN /\ Len(shown) = count
       /\ \A k \in 1..count :
            /\ shown[k].text = StoredBefore[n - count + k].text
            /\ shown[k].sender = UpperCase(StoredBefore[n - count + k].sender)

\* a request continuing a conversation of 34 entries got entries 5 to 34
C10_Witness ==
  /\ Continued /\ last.status = 200 /\ Len(StoredBefore) = 34
  /\ Len(last.prompt.chatHistory) = 30
  /\ last.prompt.chatHistory[1].text = StoredText(5)
  /\ last.prompt.chatHistory[30].text = StoredText(34)

\* C11: a chat request answered 500 or 400 leaves the conversation store
\* exactly as it was before the request: it created no conversation and
\* appended no entry.
C11_NoPartialResult ==
  [][(last'.op = "chat" /\ last'.status \in {400, 500}) =>
        conversations' = conversations]_vars

\* a request continuing a stored conversation whose save was rejected, after
\* every other call returned: the conversation still holds its two entries
C11_Witness ==
  /\ last.op = "chat" /\ last.status = 500
  /\ last.calls # <<>> /\ last.calls[Len(last.calls)] = "conversation.save"
  /\ last.req.conversationId \in DOMAIN conversations
  /\ Len(conversations[last.req.conversationId].messages) = 2

\* C12: when reading the catalog or embedding one of its entries fails,
\* the seeding request ends with a 500 without calling index.upsert, and
\* the vector index is as it was before the request: it holds no record
\* written by the request, not even for the entries embedded before the
\* failure.
SeedAborted == last.op = "seed" /\ last.calls[Len(last.calls)] # "index.upsert"
                 /\ last.body \in {[error |-> "find"], [error |-> "embed"]}
C12_SeedAllOrNothing ==
  /\ (last.op = "seed" /\ last.status = 200) => ~SeedAborted
  /\ SeedAborted =>
       /\ last.status = 500
       /\ \A k \in DOMAIN last.calls : last.calls[k] # "index.upsert"
       /\ vectorIndex = last.indexBefore

\* the embedding of the second of two agencies failed on a first seeding:
\* the first was embedded, and the index holds no record
C12_Witness ==
  /\ SeedAborted /\ last.body.error = "embed"
  /\ last.calls = <<"Agency.find", "embedContent", "embedContent">>
  /\ Len(agencies) = 2 /\ vectorIndex = <<>>

\* C13: once a seeding request has completed successfully, the vector index
\* holds exactly one record for each agency now in the catalog, equal to
\* the record built from that agency, and no record whose identifier is
\* not the key of an agency now in the catalog; this also after the
\* catalog has been replaced by the loader since the previous seeding.
Seeded == last.op = "seed" /\ last.status = 200
C13_IndexFreshAfterReseed ==
  Seeded =>
     /\ \A k \in DOMAIN agencies :
          /\ Cardinality(RecordsOf(agencies[k])) = 1
          /\ \A i \in RecordsOf(agencies[k]) : vectorIndex[i] = VectorOf(agencies[k])
     /\ \A i \in DOMAIN vectorIndex :
          \E k \in DOMAIN agencies : vectorIndex[i].id = agencies[k]._id

\* a successful seeding after which the index holds a record of an agency
\* the loader has deleted
C13_StaleRecord ==
  /\ Seeded /\ agencies # <<>>
  /\ \E i \in DOMAIN vectorIndex :
       \A k \in DOMAIN agencies : vectorIndex[i].id # agencies[k]._id

\* the calls of one chat request, by what they address
ConversationLookups(calls) == SelectSeq(calls, LAMBDA c : c = "Conversation.findById")
Embeddings(calls) == SelectSeq(calls, LAMBDA c : c = "embedContent")
VectorQueries(calls) == SelectSeq(calls, LAMBDA c : c = "index.query")
Generations(calls) == SelectSeq(calls, LAMBDA c : c = "generateContent")
Stage(c) ==
  CASE c = "User.findOne" -> 1
    [] c = "Conversation.findById" -> 2
    [] c = "embedContent" -> 3
    [] c = "index.query" -> 4
    [] c = "generateContent" -> 5
    [] c = "conversation.save" -> 6

\* C14: the external calls of one chat request occur in the order profile
\* lookup, conversation lookup (only when a reference is supplied),
\* embedding, vector query, generation, conversation save: no call is
\* followed by a call of an earlier stage.  Embedding and vector query are
\* issued at most once; a request that is answered 200 called the
\* generation client exactly once when continuing and exactly twice when
\* creating, and saved last.
C14_CallOrder ==
  ChatAnswered =>
    LET calls == last.calls
        continuing == last.req.conversationId # NoConvId
    IN /\ \A j, k \in DOMAIN calls : j < k => Stage(calls[j]) <= Stage(calls[k])
       /\ ~continuing => ConversationLookups(calls) = <<>>
       /\ Len(Embeddings(calls)) <= 1 /\ Len(VectorQueries(calls)) <= 1
       /\ last.status = 200 =>
            /\ Len(Generations(calls)) = IF continuing THEN 1 ELSE 2
            /\ calls[Len(calls)] = "conversation.save"

\* the whole sequence of calls of a request
ContinuingCalls ==
  <<"User.findOne", "Conversation.findById", "embedContent", "index.query",
    "generateContent", "Conversation.findById", "conversation.save">>
CreatingCalls ==
  <<"User.findOne", "embedContent", "index.query", "generateContent",
    "generateContent", "conversation.save">>
IsPrefix(s, t) == Len(s) <= Len(t) /\ s = SubSeq(t, 1, Len(s))

\* C14 as amended: the calls of a chat request are an initial part of
\* profile lookup, conversation lookup, embedding, vector query, reply
\* generation, second conversation lookup, conversation save when a
\* reference is supplied, and of profile lookup, embedding, vector query,
\* reply generation, title generation, conversation save when none is; a
\* request answered 200 made the whole sequence.
C14_CallOrderWithSecondLookup ==
  ChatAnswered =>
    LET whole == IF last.req.conversationId # NoConvId THEN ContinuingCalls
                                                       ELSE CreatingCalls
    IN /\ IsPrefix(last.calls, whole)
       /\ last.calls # <<>>
       /\ last.status = 200 => last.calls = whole

\* a request continuing a stored conversation, answered 200: it looked the
\* conversation up a second time between the generation and the save
C14_Witness ==
  /\ ChatAnswered /\ last.status = 200
  /\ last.req.conversationId \in DOMAIN conversations
  /\ last.calls = ContinuingCalls

\* C15: every step keeps each stored conversation, its owning user email,
\* its title and the entries it holds, in their order.  A chat request
\* answered 200 that references the conversation adds exactly two entries
\* at its end, sender user with the request's message and then sender bot
\* with the reply of the response; no other step adds an entry to it.
AnsweredFor(c, l) ==
  l.op = "chat" /\ l.status = 200 /\ l.req.conversationId = c
C15_AppendOnly ==
  [][\A c \in DOMAIN conversations :
       /\ c \in DOMAIN conversations'
       /\ conversations'[c].user_email = conversations[c].user_email
       /\ conversations'[c].title = conversations[c].title
       /\ conversations'[c].messages =
            conversations[c].messages \o
              (IF AnsweredFor(c, last')
                 THEN <<[sender |-> "user", text |-> last'.req.message],
                        [sender |-> "bot", text |-> last'.body.reply]>>
                 ELSE <<>>)]_vars

\* a second exchange was appended to a conversation after its first: four
\* entries, the first reply still in place before the new one
C15_Witness ==
  /\ last.op = "chat" /\ last.status = 200
  /\ last.req.conversationId \in DOMAIN conversations
  /\ LET msgs == conversations[last.req.conversationId].messages
     IN /\ Len(msgs) = 4
        /\ msgs[2] = [sender |-> "bot", text |-> Str(<<"r1">>)]
        /\ msgs[3].sender = "user"
        /\ msgs[4].sender = "bot" /\ msgs[4].text # msgs[2].text

\* C16: a profile, chat or history request that lacks its identity field
\* (email, user_email) is answered 400 without any call to a store, the
\* embedding client, the vector index or the generation client, and the
\* step that handles it leaves the profile store and the conversation
\* store as they were.
LacksIdentity(l) ==
  \/ l.op = "profile" /\ l.req.email = NoEmail
  \/ l.op \in {"chat", "history"} /\ l.req.user_email = NoEmail
C16_MissingIdentityRejected ==
  [][LacksIdentity(last') =>
       /\ last'.status = 400
       /\ last'.calls = <<>>
       /\ users' = users
       /\ conversations' = conversations]_vars

\* a chat request without user_email, naming a stored conversation while a
\* profile is stored, was rejected
C16_Witness ==
  /\ LacksIdentity(last) /\ last.op = "chat" /\ last.status = 400
  /\ last.req.conversationId \in DOMAIN conversations
  /\ users # <<>>

\* C17: when two profile requests carrying the same email, which the store
\* did not hold before them, have both been answered, in whatever order
\* their lookups and saves were interleaved, both were answered 200 with
\* the profile saved for that email, and neither with a 500.
BothAnswered(r, q) ==
  /\ r # q /\ inflight[r].pc = "done" /\ inflight[q].pc = "done"
  /\ inflight[r].email = inflight[q].email /\ inflight[r].email # NoEmail
C17_ConcurrentUpsert ==
  \A r, q \in Requests :
    BothAnswered(r, q) =>
       /\ inflight[r].status = 200
       /\ inflight[r].resp.user.email = inflight[r].email
       /\ Cardinality(ProfilesOf(inflight[r].email)) = 1

\* both requests looked the email up before either saved: the second save
\* was rejected by the unique index
C17_DuplicateKey ==
  \E r, q \in Requests :
    /\ BothAnswered(r, q)
    /\ inflight[r].at = 0 /\ inflight[q].at = 0
    /\ inflight[r].status = 200 /\ inflight[q].status = 500

\* C18: an audit request carrying an image and a user_email that matches
\* no stored profile, none of whose external calls fails, is answered 200
\* with the audit report: the prompt sent to the generation client carries
\* the default user context, together with the image.
AuditOfUnknownUser ==
  /\ last.op = "audit"
  /\ AuditRejection(last.req.user_email, last.req.imageBase64) = "none"
  /\ FindUser(users, last.req.user_email) = 0
  /\ last.body # [error |-> "Vision Analysis Failed: "]
C18_UnknownUserAudited ==
  AuditOfUnknownUser =>
     /\ last.status = 200
     /\ last.calls = <<"User.findOne", "generateContent">>
     /\ last.sent # NoPrompt
     /\ last.sent.prompt.userContext = [default |-> "User is an elderly individual."]
     /\ last.sent.inlineData = Base64Data(last.req.imageBase64)
     /\ last.body = [audit_report |-> Str(CleanText(last.req.genText))]

\* such a request while another user's profile is stored: answered 500
\* after the profile lookup, nothing sent to the generation client
C18_NullProfileRead ==
  /\ AuditOfUnknownUser /\ users # <<>>
  /\ last.status = 500 /\ last.calls = <<"User.findOne">> /\ last.sent = NoPrompt

\* C19: a chat request writes entries only to conversations owned by its
\* own user_email (the one it creates, or one it appends to), and the
\* transcript in its prompt is of a conversation owned by its user_email:
\* a request naming another user's conversation neither reads it nor
\* appends to it.
Written(c) ==
  c \notin DOMAIN conversations \/ conversations'[c].messages # conversations[c].messages
C19_OwnerIsolation ==
  [][last'.op = "chat" =>
       /\ \A c \in DOMAIN conversations' :
            Written(c) => conversations'[c].user_email = last'.req.user_email
       /\ (last'.prompt # NoPrompt /\ last'.prompt.chatHistory # <<>>) =>
            conversations[last'.req.conversationId].user_email = last'.req.user_email]_vars

\* a request of one user naming the conversation of another was answered
\* 200: its prompt carried that conversation's entries and its exchange was
\* appended to it
C19_ForeignConversation ==
  /\ last.op = "chat" /\ last.status = 200
  /\ last.req.conversationId \in DOMAIN conversations
  /\ conversations[last.req.conversationId].user_email # last.req.user_email
  /\ last.prompt.chatHistory # <<>>
  /\ Len(conversations[last.req.conversationId].messages) = 4

====
